---------------------------- MODULE Spec2Model ----------------------------
(***************************************************************************)
(* A model of the _quickjs extension module (src/module.c): the Context    *)
(* type (one engine runtime and one engine context per instance), the      *)
(* Object type (a handle on one engine value, holding a reference on its   *)
(* Context), the conversion quickjs_to_python, and the host threads that   *)
(* call into them under the interpreter's global lock.                     *)
(***************************************************************************)
EXTENDS Integers, Sequences, FiniteSets, TLC

(***************************************************************************)
(* Bounds of the model.                                                    *)
(***************************************************************************)
NumContexts == 2
NumHandles == 2
MaxArgs == 2

Threads == {1, 2}
Contexts == 1..NumContexts
Runtimes == 1..NumContexts
Handles == 1..NumHandles

(***************************************************************************)
(* Engine values.  A JSValue is a tag and a payload; reference-counted     *)
(* values name the context whose runtime owns them (c) and the value (id). *)
(***************************************************************************)
Objs == {"global", "JSON", "stringify", "fn", "obj", "bad"}
Callables == {"stringify", "fn"}
RefIds == Objs \cup {"str", "sym", "err"}

JSVal(tag, c, id, n) == [tag |-> tag, c |-> c, id |-> id, n |-> n]
JS_NULL == JSVal("NULL", 0, "", 0)
JS_UNDEFINED == JSVal("UNDEFINED", 0, "", 0)
JS_EXCEPTION == JSVal("EXCEPTION", 0, "", 0)
JSInt(n) == JSVal("INT", 0, "", n)
JSBool(b) == JSVal("BOOL", 0, "", b)
JSFloat(n) == JSVal("FLOAT64", 0, "", n)
JSStr(c) == JSVal("STRING", c, "str", 0)
JSSym(c) == JSVal("SYMBOL", c, "sym", 0)
JSObj(c, id) == JSVal("OBJECT", c, id, 0)

\* JS_VALUE_HAS_REF_COUNT: the tags whose values live on the engine heap.
HasRefCount(v) == v.tag \in {"STRING", "SYMBOL", "OBJECT"}

\* JS_DupValue / JS_FreeValue on the table of references the bridge owns.
JS_DupValue(jr, v) ==
  IF HasRefCount(v) THEN [jr EXCEPT ![v.c][v.id] = @ + 1] ELSE jr

JS_FreeValue(jr, v) ==
  IF HasRefCount(v) THEN [jr EXCEPT ![v.c][v.id] = @ - 1] ELSE jr


(***************************************************************************)
(* Host values and host results.  An argument is a host kind and a         *)
(* payload (the number, or the handle for an Object); a result is what     *)
(* the host sees when a bridge function returns: a value kind, or the      *)
(* error kind set with PyErr_Format.  A host integer is unbounded: it is   *)
(* kept as three words, its value being (top * 2^32 + hi) * 2^32 + n with  *)
(* n and hi in the range of a signed 32-bit integer.                       *)
(***************************************************************************)
HostArg(kind, n) == [kind |-> kind, n |-> n, hi |-> 0, top |-> 0]
HostInt(top, hi, n) == [kind |-> "int", n |-> n, hi |-> hi, top |-> top]
SupportedKinds == {"bool", "int", "float", "NoneType", "str", "_quickjs.Object"}
UnsupportedKinds == {"dict", "list"}

Ret(kind, h, n, msg, pos, tname) ==
  [kind |-> kind, h |-> h, n |-> n, msg |-> msg, pos |-> pos, tname |-> tname]
RetValue(kind, n) == Ret(kind, 0, n, "", -1, "")
RetNone == RetValue("NoneType", 0)
RetError(kind, msg) == Ret(kind, 0, 0, msg, -1, "")

\* The exception type created in PyInit__quickjs, and the host exception
\* types the bridge raises itself.
JSException == "_quickjs.JSException"
UnsupportedArgError == "ValueError"
UnknownTagError == "ValueError"

(***************************************************************************)
(* The state.                                                              *)
(***************************************************************************)
VARIABLES
  ctxs,      \* ContextData: [state, refcnt, runtime, context] of each Context
  hostRefs,  \* the references the host program holds on each Context
  rts,       \* engine runtimes: [state, limit]
  pending,   \* each engine context's pending-exception slot (JS_NULL: empty)
  jsref,     \* engine references owned by the bridge, per context and value
  objs,      \* ObjectData: [state, context, object] of each Object handle
  thr,       \* each host thread's position inside the bridge
  gil,       \* the thread holding the interpreter lock, or 0
  crashed,   \* the process has died
  last       \* the result the last step returned to the host, if it returned one

vars == <<ctxs, hostRefs, rts, pending, jsref, objs, thr, gil, crashed, last>>

\* No bridge function has just returned.
NoResult == [t |-> 0, op |-> "", self |-> 0, args |-> <<>>, ret |-> RetNone]

Idle == [pc |-> "idle", ctx |-> 0, h |-> 0, pins |-> {}, src |-> "",
         args |-> <<>>, jsargs |-> <<>>, value |-> JS_NULL]

NoLimit == -1

Init ==
  /\ ctxs = [c \in Contexts |->
               [state |-> "unborn", refcnt |-> 0, runtime |-> 0, context |-> "none"]]
  /\ hostRefs = [c \in Contexts |-> 0]
  /\ rts = [r \in Runtimes |-> [state |-> "none", limit |-> NoLimit]]
  /\ pending = [c \in Contexts |-> JS_NULL]
  /\ jsref = [c \in Contexts |-> [id \in RefIds |-> 0]]
  /\ objs = [h \in Handles |-> [state |-> "free", context |-> 0, object |-> JSInt(0)]]
  /\ thr = [t \in Threads |-> Idle]
  /\ gil = 0
  /\ crashed = FALSE
  /\ last = NoResult

(***************************************************************************)
(* The engine, as the bridge uses it.                                      *)
(***************************************************************************)
\* What each operation of the engine costs against the runtime's ceiling.
AllocCost == 10
OutOfMemory(limit) == limit # NoLimit /\ AllocCost > limit

\* The result of an engine operation: the value returned and, when the
\* operation threw, the value it put into the pending slot.
EngineResult(v, threw, thrown) == [v |-> v, threw |-> threw, thrown |-> thrown]
Returns(v) == EngineResult(v, FALSE, JS_NULL)
Throws(e) == EngineResult(JS_EXCEPTION, TRUE, e)
\* Running out of memory throws null: no error object can be allocated.
ThrowsOOM == Throws(JS_NULL)

Sources == {"1+1", "undefined", "'s'", "({})", "fn", "Symbol()",
            "throw Error", "throw bad", "("}
ThrowingSources == {"throw Error", "throw bad", "("}

JS_Eval(c, src, limit) ==
  IF OutOfMemory(limit) THEN ThrowsOOM
  ELSE CASE src = "1+1" -> Returns(JSInt(2))
         [] src = "undefined" -> Returns(JS_UNDEFINED)
         [] src = "'s'" -> Returns(JSStr(c))
         [] src = "({})" -> Returns(JSObj(c, "obj"))
         [] src = "fn" -> Returns(JSObj(c, "fn"))
         [] src = "Symbol()" -> Returns(JSSym(c))
         [] src = "throw bad" -> Throws(JSObj(c, "bad"))
         [] OTHER -> Throws(JSObj(c, "err"))

Names == {"JSON", "nope"}

JS_GetPropertyStr(c, base, name, limit) ==
  IF OutOfMemory(limit) THEN ThrowsOOM
  ELSE CASE base.id = "global" /\ name = "JSON" -> Returns(JSObj(c, "JSON"))
         [] base.id = "JSON" /\ name = "stringify" -> Returns(JSObj(c, "stringify"))
         [] OTHER -> Returns(JS_UNDEFINED)

\* fn is the identity function; stringify is JSON.stringify, which gives
\* undefined for no value or a function and throws on the cyclic global.
JS_Call(c, func, args, limit) ==
  IF OutOfMemory(limit) THEN ThrowsOOM
  ELSE IF func.tag # "OBJECT" \/ func.id \notin Callables
       THEN Throws(JSObj(c, "err"))
  ELSE IF func.id = "fn"
       THEN IF Len(args) = 0 THEN Returns(JS_UNDEFINED) ELSE Returns(args[1])
  ELSE IF Len(args) = 0 \/ args[1].tag \in {"UNDEFINED", "SYMBOL"}
            \/ (args[1].tag = "OBJECT" /\ args[1].id \in Callables)
       THEN Returns(JS_UNDEFINED)
  ELSE IF args[1].tag = "OBJECT" /\ args[1].id = "global"
       THEN Throws(JSObj(c, "err"))
  ELSE Returns(JSStr(c))

\* JS_ToString: a string for every value, except that converting an object
\* runs its toString, which the object "bad" makes throw 1.
JS_ToString(c, v, limit) ==
  CASE v.tag = "STRING" -> Returns(v)
    [] v.tag = "EXCEPTION" -> Returns(JS_EXCEPTION)
    [] v.tag \in {"NULL", "UNDEFINED", "BOOL"} -> Returns(JSStr(c))
    [] v.tag = "OBJECT" /\ v.id = "bad" -> Throws(JSInt(1))
    [] OTHER -> IF OutOfMemory(limit) THEN ThrowsOOM ELSE Returns(JSStr(c))

\* JS_ToCString: the C string of a string value, NULL when the value is not
\* a string and cannot be converted to one.
JS_ToCString(v) == IF v.tag = "STRING" THEN "cstring" ELSE "NULL"

\* The pending slot after an engine operation, and the references the
\* bridge owns once the engine has handed it the operation's result.
Thrown(pend, c, res) == IF res.threw THEN [pend EXCEPT ![c] = res.thrown] ELSE pend
Take(jr, v) == JS_DupValue(jr, v)

\* JS_GetException: the pending value, handed to the caller; the slot is
\* left empty.
JS_GetException(pend, c) == [v |-> pend[c], pend |-> [pend EXCEPT ![c] = JS_NULL]]


\* JS_NewString: a fresh string of the context, or the exception marker
\* when the runtime's ceiling leaves no room for it.
JS_NewString(c, limit) == IF OutOfMemory(limit) THEN ThrowsOOM ELSE Returns(JSStr(c))

(***************************************************************************)
(* The Context and Object types.                                           *)
(***************************************************************************)
Limit(cs, rt, c) == IF c = 0 \/ cs[c].runtime = 0 THEN NoLimit ELSE rt[cs[c].runtime].limit

\* JS_NewRuntime: a runtime no context uses yet.
JS_NewRuntime(rt) == CHOOSE r \in Runtimes : rt[r].state = "none" /\
                       \A q \in Runtimes : rt[q].state = "none" => r <= q

\* JS_FreeContext: the engine context is gone; freed twice, the heap is
\* corrupt.
JS_FreeContext(cs, c) ==
  [cs EXCEPT ![c].context = IF @ = "live" THEN "freed" ELSE "corrupt"]

\* JS_FreeRuntime: the runtime is gone, and with it its ceiling; freed
\* twice, or under a context that still lives on it, the heap is corrupt.
JS_FreeRuntime(rt, cs, r) ==
  [rt EXCEPT ![r] = [state |-> IF /\ rt[r].state = "live"
                                  /\ \A c \in Contexts :
                                       cs[c].runtime = r => cs[c].context # "live"
                               THEN "freed" ELSE "corrupt",
                     limit |-> NoLimit]]

\* context_dealloc with the two frees in the other order.
context_dealloc_runtime_first(cs, rt, c) ==
  LET rt1 == JS_FreeRuntime(rt, cs, cs[c].runtime)
      cs1 == JS_FreeContext(cs, c)
  IN [ctxs |-> [cs1 EXCEPT ![c].state = "freed", ![c].refcnt = 0], rts |-> rt1]

\* context_dealloc: the engine context is freed, then its runtime, then
\* the memory of the Context (tp_free).
context_dealloc(cs, rt, c) ==
  LET cs1 == JS_FreeContext(cs, c)
      rt1 == JS_FreeRuntime(rt, cs1, cs[c].runtime)
  IN [ctxs |-> [cs1 EXCEPT ![c].state = "freed", ![c].refcnt = 0], rts |-> rt1]

\* The pending slots once the contexts freed between cs and cs2 are gone.
Reclaimed(pend, cs, cs2) ==
  [c \in Contexts |-> IF cs[c].state = "live" /\ cs2[c].state = "freed"
                      THEN JS_NULL ELSE pend[c]]

\* Py_DECREF of a Context: tp_dealloc runs when the count reaches zero.
Py_DECREF(cs, rt, c) ==
  IF cs[c].refcnt = 1 THEN context_dealloc(cs, rt, c)
  ELSE [ctxs |-> [cs EXCEPT ![c].refcnt = @ - 1], rts |-> rt]

Py_INCREF(cs, c) == [cs EXCEPT ![c].refcnt = @ + 1]

\* tp_alloc of an Object: the first unused handle, its memory zeroed.
FreeHandles(os) == {h \in Handles : os[h].state = "free"}
NewHandle(os) == CHOOSE h \in FreeHandles(os) : \A g \in FreeHandles(os) : h <= g

\* object_new: an Object with no context attached.
object_new(os, h) ==
  [os EXCEPT ![h] = [state |-> "live", context |-> 0, object |-> JSInt(0)]]

\* object_dealloc as it would be without JS_FreeValue(self->object).
object_dealloc_no_free(os, jr, cs, rt, h) ==
  LET c == os[h].context
      freed == [os EXCEPT ![h] = [state |-> "free", context |-> 0, object |-> JSInt(0)]]
  IN IF c # 0
     THEN LET d == Py_DECREF(cs, rt, c)
          IN [objs |-> freed, jsref |-> jr, ctxs |-> d.ctxs, rts |-> d.rts]
     ELSE [objs |-> freed, jsref |-> jr, ctxs |-> cs, rts |-> rt]

\* object_dealloc as it would be without Py_DECREF(self->context).
object_dealloc_no_decref(os, jr, cs, rt, h) ==
  LET c == os[h].context
      freed == [os EXCEPT ![h] = [state |-> "free", context |-> 0, object |-> JSInt(0)]]
  IN [objs |-> freed,
      jsref |-> IF c # 0 THEN JS_FreeValue(jr, os[h].object) ELSE jr,
      ctxs |-> cs, rts |-> rt]

\* object_dealloc, on the tables it changes.
object_dealloc(os, jr, cs, rt, h) ==
  LET c == os[h].context
      freed == [os EXCEPT ![h] = [state |-> "free", context |-> 0, object |-> JSInt(0)]]
  IN IF c # 0
     THEN LET d == Py_DECREF(cs, rt, c)
          IN [objs |-> freed, jsref |-> JS_FreeValue(jr, os[h].object),
              ctxs |-> d.ctxs, rts |-> d.rts]
     ELSE [objs |-> freed, jsref |-> jr, ctxs |-> cs, rts |-> rt]

(***************************************************************************)
(* quickjs_to_python.  An outcome is the tables after the conversion and   *)
(* the host result; the conversion has several outcomes only where the     *)
(* code's behaviour is undefined.                                          *)
(***************************************************************************)
Outcome(jr, pend, cs, os, ret, crash) ==
  [jsref |-> jr, pending |-> pend, ctxs |-> cs, objs |-> os, ret |-> ret, crash |-> crash]

MsgOf(v) == CASE v.tag = "NULL" -> "null"
              [] v.tag = "INT" -> "1"
              [] OTHER -> "Error"

\* The JS_TAG_EXCEPTION branch.  PyErr_Format is given the C string as it
\* is; with a NULL string its behaviour is undefined: the process dies, or
\* the error is raised with whatever text the formatter produces.
to_python_exception(c, jr, pend, cs, os, limit) ==
  LET ex == JS_GetException(pend, c)
      jr1 == Take(jr, ex.v)
      str == JS_ToString(c, ex.v, limit)
      jr2 == Take(jr1, str.v)
      pend2 == Thrown(ex.pend, c, str)
      cstring == JS_ToCString(str.v)
      jr3 == JS_FreeValue(JS_FreeValue(jr2, str.v), ex.v)
  IN IF cstring = "NULL"
     THEN {Outcome(jr2, pend2, cs, os, RetError("crash", ""), TRUE),
           Outcome(jr3, pend2, cs, os, RetError(JSException, "(null)"), FALSE)}
     ELSE {Outcome(jr3, pend2, cs, os, RetError(JSException, MsgOf(ex.v)), FALSE)}

\* The JS_TAG_OBJECT branch as it would be without Py_INCREF(context_obj).
to_python_object_no_incref(c, value, jr, pend, cs, os) ==
  LET h == NewHandle(os)
      os1 == object_new(os, h)
      os2 == [os1 EXCEPT ![h].context = c, ![h].object = value]
  IN Outcome(JS_DupValue(jr, value), pend, cs, os2,
             Ret("_quickjs.Object", h, 0, "", -1, ""), FALSE)

\* The JS_TAG_OBJECT branch: a new Object that holds a reference on the
\* Context and a reference on the engine value.
to_python_object(c, value, jr, pend, cs, os) ==
  LET h == NewHandle(os)
      os1 == object_new(os, h)
      cs1 == Py_INCREF(cs, c)
      os2 == [os1 EXCEPT ![h].context = c, ![h].object = value]
  IN Outcome(JS_DupValue(jr, value), pend, cs1, os2,
             Ret("_quickjs.Object", h, 0, "", -1, ""), FALSE)

\* The branches on the tag, before the value is released.
to_python_branch(c, value, jr, pend, cs, os, limit) ==
  LET tag == value.tag
      plain(ret) == {Outcome(jr, pend, cs, os, ret, FALSE)}
  IN CASE tag = "INT" -> plain(RetValue("int", value.n))
       [] tag = "BOOL" -> plain(RetValue("bool", value.n))
       [] tag = "NULL" -> plain(RetNone)
       [] tag = "UNDEFINED" -> plain(RetNone)
       [] tag = "EXCEPTION" -> to_python_exception(c, jr, pend, cs, os, limit)
       [] tag = "FLOAT64" -> plain(RetValue("float", value.n))
       [] tag = "STRING" -> plain(RetValue("str", 0))
       [] tag = "OBJECT" -> {to_python_object(c, value, jr, pend, cs, os)}
       [] OTHER -> plain(RetError(UnknownTagError, "Unknown quickjs tag"))

\* quickjs_to_python as it would be without the closing JS_FreeValue.
quickjs_to_python_no_free(c, value, jr, pend, cs, os, limit) ==
  to_python_branch(c, value, jr, pend, cs, os, limit)

\* quickjs_to_python: the branch, then JS_FreeValue(context, value).
quickjs_to_python(c, value, jr, pend, cs, os, limit) ==
  {IF o.crash THEN o ELSE [o EXCEPT !.jsref = JS_FreeValue(o.jsref, value)] :
     o \in to_python_branch(c, value, jr, pend, cs, os, limit)}


(***************************************************************************)
(* Host threads.  A thread runs bridge code while it holds the interpreter *)
(* lock; the interpreter keeps self and the arguments of a call alive      *)
(* until the call returns (pins).  The host serialises the use of one      *)
(* Context and of the handles derived from it, as the design requires.     *)
(***************************************************************************)
Uses(t) ==
  IF thr[t].pc = "idle" THEN {}
  ELSE ({thr[t].ctx} \cup {objs[h].context : h \in thr[t].pins}) \ {0}
Available(t, c) == \A u \in Threads \ {t} : c \notin Uses(u)
Pinned(h) == \E u \in Threads : thr[u].pc # "idle" /\ h \in thr[u].pins
\* A thread enters the bridge when it is outside it, the lock is free and
\* the host has taken the result of the call that returned last.
CanRun(t) == ~crashed /\ thr[t].pc = "idle" /\ gil = 0 /\ last = NoResult
NeedsHandle(v) == v.tag = "OBJECT" => FreeHandles(objs) # {}
Result(t, op, self, args, ret) ==
  [t |-> t, op |-> op, self |-> self, args |-> args, ret |-> ret]

\* A thread that goes into the engine without releasing the lock.
Py_KEEP_THREADS(t) == gil' = t

\* Py_BEGIN_ALLOW_THREADS and Py_END_ALLOW_THREADS.
Py_BEGIN_ALLOW_THREADS(t) == gil' = 0
Py_END_ALLOW_THREADS(t) == gil = 0 /\ gil' = t

\* The host takes the result a bridge function has just returned.
HostTakeResult ==
  /\ ~crashed
  /\ last # NoResult
  /\ last' = NoResult
  /\ UNCHANGED <<ctxs, hostRefs, rts, pending, jsref, objs, thr, gil, crashed>>

\* context_new as it would be with one runtime for all contexts.
context_new_shared_runtime(t, c) ==
  /\ CanRun(t)
  /\ ctxs[c].state = "unborn"
  /\ rts' = [rts EXCEPT ![1] = [state |-> "live", limit |-> @.limit]]
  /\ ctxs' = [ctxs EXCEPT ![c] = [state |-> "live", refcnt |-> 1,
                                  runtime |-> 1, context |-> "live"]]
  /\ hostRefs' = [hostRefs EXCEPT ![c] = 1]
  /\ last' = NoResult
  /\ UNCHANGED <<pending, jsref, objs, thr, gil, crashed>>

\* Context(): context_new, called by the host, which keeps the reference.
context_new(t, c) ==
  /\ CanRun(t)
  /\ ctxs[c].state = "unborn"
  /\ LET r == JS_NewRuntime(rts)
     IN /\ rts' = [rts EXCEPT ![r] = [state |-> "live", limit |-> NoLimit]]
        /\ ctxs' = [ctxs EXCEPT ![c] = [state |-> "live", refcnt |-> 1,
                                        runtime |-> r, context |-> "live"]]
  /\ hostRefs' = [hostRefs EXCEPT ![c] = 1]
  /\ last' = NoResult
  /\ UNCHANGED <<pending, jsref, objs, thr, gil, crashed>>

\* The host drops a reference it holds on a Context (not the one a running
\* call of eval or get is using as self).
HostDropRef(t, c) ==
  /\ CanRun(t)
  /\ ctxs[c].state = "live"
  /\ hostRefs[c] >= 1
  /\ hostRefs[c] = 1 => \A u \in Threads : thr[u].pc = "idle" \/ thr[u].ctx # c \/ thr[u].h # 0
  /\ hostRefs' = [hostRefs EXCEPT ![c] = @ - 1]
  /\ LET d == Py_DECREF(ctxs, rts, c)
     IN ctxs' = d.ctxs /\ rts' = d.rts /\ pending' = Reclaimed(pending, ctxs, d.ctxs)
  /\ last' = NoResult
  /\ UNCHANGED <<jsref, objs, thr, gil, crashed>>

\* set_memory_limit as it would be if it parsed the limit and set nothing.
context_set_memory_limit_unset(t, c, limit) ==
  /\ CanRun(t)
  /\ ctxs[c].state = "live" /\ hostRefs[c] >= 1
  /\ Available(t, c)
  /\ last' = Result(t, "set_memory_limit", c, <<HostInt(0, 0, limit)>>, RetNone)
  /\ UNCHANGED <<ctxs, hostRefs, rts, pending, jsref, objs, thr, gil, crashed>>

\* Context.set_memory_limit
context_set_memory_limit(t, c, limit) ==
  /\ CanRun(t)
  /\ ctxs[c].state = "live" /\ hostRefs[c] >= 1
  /\ Available(t, c)
  /\ rts' = [rts EXCEPT ![ctxs[c].runtime].limit = limit]
  /\ last' = Result(t, "set_memory_limit", c, <<HostInt(0, 0, limit)>>, RetNone)
  /\ UNCHANGED <<ctxs, hostRefs, pending, jsref, objs, thr, gil, crashed>>

\* PyLong_AsLong: the integer as a C long of 64 bits (two words), or -1
\* with OverflowError set when it does not fit.
PyLong_AsLong(arg) ==
  IF arg.top = 0 THEN [hi |-> arg.hi, lo |-> arg.n, err |-> FALSE]
  ELSE [hi |-> 0, lo |-> -1, err |-> TRUE]

\* JS_MKVAL(JS_TAG_INT, long): the long is stored in the 32 bits of the
\* engine integer, which keeps its low word.
JS_MKVAL_INT(long) == JSInt(long.lo)

\* The host error indicator after the second pass: nothing looks at it.
PyErr_Occurred(args) ==
  \E i \in 1..Len(args) : args[i].kind = "int" /\ PyLong_AsLong(args[i]).err

\* The interpreter's check of what a bridge function returned: a result
\* returned with the error indicator set is dropped (a new handle is
\* deallocated) and SystemError is raised in its place.
CheckFunctionResult(o, rt, err) ==
  IF err /\ ~o.crash /\ o.ret.kind \notin {JSException, UnknownTagError}
  THEN LET d == IF o.ret.kind = "_quickjs.Object"
                THEN object_dealloc(o.objs, o.jsref, o.ctxs, rt, o.ret.h)
                ELSE [objs |-> o.objs, jsref |-> o.jsref, ctxs |-> o.ctxs]
       IN Outcome(d.jsref, o.pending, d.ctxs, d.objs,
                  RetError("SystemError", "returned a result with an error set"), FALSE)
  ELSE o

\* The return of a bridge function through quickjs_to_python.
Convert(t, op) ==
  LET c == thr[t].ctx
      err == PyErr_Occurred(thr[t].args)
  IN /\ ~crashed
     /\ gil = t
     /\ \E o \in {CheckFunctionResult(q, rts, err) :
                    q \in quickjs_to_python(c, thr[t].value, jsref, pending, ctxs, objs,
                                            Limit(ctxs, rts, c))} :
          /\ jsref' = o.jsref
          /\ pending' = o.pending
          /\ ctxs' = o.ctxs
          /\ objs' = o.objs
          /\ crashed' = o.crash
          /\ thr' = IF o.crash THEN thr ELSE [thr EXCEPT ![t] = Idle]
          /\ gil' = IF o.crash THEN gil ELSE 0
          /\ last' = Result(t, op, IF thr[t].h # 0 THEN thr[t].h ELSE c, thr[t].args, o.ret)
     /\ UNCHANGED <<hostRefs, rts>>

\* Context.eval: the arguments are parsed and the lock is released ...
NotText == "<not text>"

context_eval_begin(t, c, code) ==
  /\ CanRun(t)
  /\ ctxs[c].state = "live" /\ hostRefs[c] >= 1
  /\ Available(t, c)
  /\ IF code = NotText
     THEN /\ last' = Result(t, "eval", c, <<>>, RetError("TypeError", "argument 1 must be str"))
          /\ UNCHANGED <<thr, gil>>
     ELSE /\ thr' = [thr EXCEPT ![t] = [Idle EXCEPT !.pc = "eval_js", !.ctx = c, !.src = code]]
          /\ Py_BEGIN_ALLOW_THREADS(t)
          /\ last' = NoResult
  /\ UNCHANGED <<ctxs, hostRefs, rts, pending, jsref, objs, crashed>>

\* ... JS_Eval runs, and the lock is taken again ...
context_eval_js(t) ==
  LET c == thr[t].ctx
      res == JS_Eval(c, thr[t].src, Limit(ctxs, rts, c))
  IN /\ ~crashed
     /\ thr[t].pc = "eval_js"
     /\ NeedsHandle(res.v)
     /\ pending' = Thrown(pending, c, res)
     /\ jsref' = Take(jsref, res.v)
     /\ Py_END_ALLOW_THREADS(t)
     /\ thr' = [thr EXCEPT ![t].pc = "eval_conv", ![t].value = res.v]
     /\ last' = NoResult
     /\ UNCHANGED <<ctxs, hostRefs, rts, objs, crashed>>

\* ... and the value is converted.
context_eval_return(t) == thr[t].pc = "eval_conv" /\ Convert(t, "eval")

\* Context.get: the arguments are parsed ...
context_get_begin(t, c, name) ==
  /\ CanRun(t)
  /\ ctxs[c].state = "live" /\ hostRefs[c] >= 1
  /\ Available(t, c)
  /\ IF name = NotText
     THEN /\ last' = Result(t, "get", c, <<>>, RetError("TypeError", "argument 1 must be str"))
          /\ UNCHANGED <<thr, gil>>
     ELSE /\ thr' = [thr EXCEPT ![t] = [Idle EXCEPT !.pc = "get_js", !.ctx = c, !.src = name]]
          /\ gil' = t
          /\ last' = NoResult
  /\ UNCHANGED <<ctxs, hostRefs, rts, pending, jsref, objs, crashed>>

\* ... the property of the global object is read, the lock still held ...
context_get_js(t) ==
  LET c == thr[t].ctx
      global == JSObj(c, "global")
      res == JS_GetPropertyStr(c, global, thr[t].src, Limit(ctxs, rts, c))
  IN /\ ~crashed
     /\ thr[t].pc = "get_js"
     /\ gil = t
     /\ NeedsHandle(res.v)
     /\ pending' = Thrown(pending, c, res)
     /\ jsref' = JS_FreeValue(Take(Take(jsref, global), res.v), global)
     /\ thr' = [thr EXCEPT ![t].pc = "get_conv", ![t].value = res.v]
     /\ last' = NoResult
     /\ UNCHANGED <<ctxs, hostRefs, rts, objs, gil, crashed>>

\* ... and the value is converted.
context_get_return(t) == thr[t].pc = "get_conv" /\ Convert(t, "get")


(***************************************************************************)
(* Object.__call__ and Object.json.                                        *)
(***************************************************************************)
\* A first pass that reports the last unsupported argument, not the first.
LastUnsupported(args) ==
  IF {i \in 1..Len(args) : args[i].kind \notin SupportedKinds} = {} THEN 0
  ELSE CHOOSE i \in 1..Len(args) :
         /\ args[i].kind \notin SupportedKinds
         /\ \A j \in 1..Len(args) : args[j].kind \notin SupportedKinds => j <= i

\* The first pass of object_call: the 1-based place of the first argument
\* of an unsupported kind, 0 when there is none.
Unsupported(args) == {i \in 1..Len(args) : args[i].kind \notin SupportedKinds}
FirstUnsupported(args) ==
  IF Unsupported(args) = {} THEN 0
  ELSE CHOOSE i \in Unsupported(args) : \A j \in Unsupported(args) : i <= j

\* The second pass with the check for bool after the check for int: a bool
\* is an int to PyLong_Check.
ToJS_bool_as_int(c, arg, os, limit) ==
  CASE arg.kind \in {"bool", "int"} -> Returns(JS_MKVAL_INT(PyLong_AsLong(arg)))
    [] arg.kind = "float" -> Returns(JSFloat(arg.n))
    [] arg.kind = "NoneType" -> Returns(JS_NULL)
    [] arg.kind = "str" -> JS_NewString(c, limit)
    [] arg.kind = "_quickjs.Object" -> Returns(os[arg.n].object)

\* The second pass, one argument: the engine value and whether building it
\* threw.
ToJS(c, arg, os, limit) ==
  CASE arg.kind = "bool" -> Returns(JSBool(IF arg.n = 1 THEN 1 ELSE 0))
    [] arg.kind = "int" -> Returns(JS_MKVAL_INT(PyLong_AsLong(arg)))
    [] arg.kind = "float" -> Returns(JSFloat(arg.n))
    [] arg.kind = "NoneType" -> Returns(JS_NULL)
    [] arg.kind = "str" -> JS_NewString(c, limit)
    [] arg.kind = "_quickjs.Object" -> Returns(os[arg.n].object)

\* The second pass, all arguments from place i on: the engine arguments,
\* the references taken for them and the pending slot.
RECURSIVE ConvertArgs(_, _, _, _, _, _)
ConvertArgs(c, args, i, os, limit, acc) ==
  IF i > Len(args) THEN acc
  ELSE LET r == ToJS(c, args[i], os, limit)
       IN ConvertArgs(c, args, i + 1, os, limit,
                      [jsargs |-> Append(acc.jsargs, r.v),
                       jsref |-> Take(acc.jsref, r.v),
                       pending |-> Thrown(acc.pending, c, r)])

\* A single pass that converts as it validates: the arguments before the
\* unsupported one have been converted when the call is rejected.
call_rejected_one_pass(c, args, os, limit, jr, pend) ==
  ConvertArgs(c, SubSeq(args, 1, FirstUnsupported(args) - 1), 1, os, limit,
              [jsargs |-> <<>>, jsref |-> jr, pending |-> pend])

\* What a call rejected by the first pass has done to the engine: nothing.
call_rejected(c, args, os, limit, jr, pend) ==
  [jsargs |-> <<>>, jsref |-> jr, pending |-> pend]

\* The release of the arguments as it would be with the loop left out.
FreeAll_none(jr, jsargs, i) == jr

RECURSIVE FreeAll(_, _, _)
FreeAll(jr, jsargs, i) ==
  IF i > Len(jsargs) THEN jr ELSE FreeAll(JS_FreeValue(jr, jsargs[i]), jsargs, i + 1)

ArgHandles(args) == {args[i].n : i \in {j \in 1..Len(args) : args[j].kind = "_quickjs.Object"}}

\* object_call as it would be with the arguments validated before the check
\* for a context.
call_path_validate_first(c, args) ==
  IF FirstUnsupported(args) # 0 THEN "reject"
  ELSE IF c = 0 THEN "none"
  ELSE "run"

\* Which way object_call goes: a handle with no context returns None, an
\* argument list with an unsupported kind is rejected, any other runs.
call_path(c, args) ==
  IF c = 0 THEN "none"
  ELSE IF FirstUnsupported(args) # 0 THEN "reject"
  ELSE "run"

\* Object.__call__: the check for a context, the two passes over the
\* arguments and the release of the lock ...
object_call_begin(t, h, args) ==
  LET c == objs[h].context
      bad == FirstUnsupported(args)
      path == call_path(c, args)
  IN /\ CanRun(t)
     /\ objs[h].state = "live"
     /\ \A g \in ArgHandles(args) : objs[g].state = "live"
     /\ \A d \in ({c} \cup {objs[g].context : g \in ArgHandles(args)}) \ {0} : Available(t, d)
     /\ CASE path = "none" ->
               /\ last' = Result(t, "call", h, args, RetNone)
               /\ UNCHANGED <<thr, jsref, pending, gil>>
          [] path = "reject" ->
               LET rej == call_rejected(c, args, objs, Limit(ctxs, rts, c), jsref, pending)
               IN /\ last' = Result(t, "call", h, args,
                               Ret(UnsupportedArgError, 0, 0, "Unsupported type of argument",
                                   bad - 1, args[bad].kind))
                  /\ jsref' = rej.jsref
                  /\ pending' = rej.pending
                  /\ UNCHANGED <<thr, gil>>
          [] path = "run" ->
               LET conv == ConvertArgs(c, args, 1, objs, Limit(ctxs, rts, c),
                                       [jsargs |-> <<>>, jsref |-> jsref, pending |-> pending])
               IN /\ thr' = [thr EXCEPT ![t] = [Idle EXCEPT !.pc = "call_js", !.ctx = c, !.h = h,
                                                !.pins = {h} \cup ArgHandles(args),
                                                !.args = args, !.jsargs = conv.jsargs]]
                  /\ jsref' = conv.jsref
                  /\ pending' = conv.pending
                  /\ Py_BEGIN_ALLOW_THREADS(t)
                  /\ last' = NoResult
     /\ UNCHANGED <<ctxs, hostRefs, rts, objs, crashed>>

\* An engine argument that lives on the heap of another Context's runtime:
\* what the engine does with it is undefined.
Foreign(c, jsargs) ==
  \E i \in 1..Len(jsargs) : HasRefCount(jsargs[i]) /\ jsargs[i].c # c

\* ... JS_Call runs, the lock is taken again and the arguments are freed ...
\* With an argument of another runtime the call may go through, as here, or
\* the process may die.
object_call_js(t) ==
  LET c == thr[t].ctx
      res == JS_Call(c, objs[thr[t].h].object, thr[t].jsargs, Limit(ctxs, rts, c))
  IN /\ ~crashed
     /\ thr[t].pc = "call_js"
     /\ NeedsHandle(res.v)
     /\ \E crash \in IF Foreign(c, thr[t].jsargs) THEN {FALSE, TRUE} ELSE {FALSE} :
          IF crash
          THEN crashed' = TRUE /\ UNCHANGED <<pending, jsref, thr, gil>>
          ELSE /\ pending' = Thrown(pending, c, res)
               /\ Py_END_ALLOW_THREADS(t)
               /\ jsref' = FreeAll(Take(jsref, res.v), thr[t].jsargs, 1)
               /\ thr' = [thr EXCEPT ![t].pc = "call_conv", ![t].jsargs = <<>>,
                                     ![t].value = res.v]
               /\ UNCHANGED crashed
     /\ last' = NoResult
     /\ UNCHANGED <<ctxs, hostRefs, rts, objs>>

\* ... and the value is converted.
object_call_return(t) == thr[t].pc = "call_conv" /\ Convert(t, "call")

\* Object.json: JSON.stringify is looked up and called, the lock held; the
\* context of the handle is read without a check, so a handle that has
\* none makes the process dereference NULL.
object_json_js(t, h) ==
  LET c == objs[h].context
      limit == Limit(ctxs, rts, c)
      global == JSObj(c, "global")
      JSON == JS_GetPropertyStr(c, global, "JSON", limit)
      stringify == JS_GetPropertyStr(c, JSON.v, "stringify", limit)
      res == JS_Call(c, stringify.v, <<objs[h].object>>, limit)
      taken == Take(Take(Take(Take(jsref, global), JSON.v), stringify.v), res.v)
  IN /\ CanRun(t)
     /\ objs[h].state = "live"
     /\ IF c = 0
        THEN /\ crashed' = TRUE
             /\ last' = Result(t, "json", h, <<>>, RetError("crash", ""))
             /\ UNCHANGED <<pending, jsref, thr, gil>>
        ELSE /\ Available(t, c)
             /\ NeedsHandle(res.v)
             /\ pending' = Thrown(Thrown(Thrown(pending, c, JSON), c, stringify), c, res)
             /\ jsref' = JS_FreeValue(JS_FreeValue(JS_FreeValue(taken, global), JSON.v),
                                      stringify.v)
             /\ thr' = [thr EXCEPT ![t] = [Idle EXCEPT !.pc = "json_conv", !.ctx = c, !.h = h,
                                           !.pins = {h}, !.value = res.v]]
             /\ gil' = t
             /\ last' = NoResult
             /\ UNCHANGED crashed
     /\ UNCHANGED <<ctxs, hostRefs, rts, objs>>

object_json_return(t) == thr[t].pc = "json_conv" /\ Convert(t, "json")

\* _quickjs.Object(): the host constructs a handle itself; it has no context.
host_object_new(t) ==
  /\ CanRun(t)
  /\ FreeHandles(objs) # {}
  /\ objs' = object_new(objs, NewHandle(objs))
  /\ last' = NoResult
  /\ UNCHANGED <<ctxs, hostRefs, rts, pending, jsref, thr, gil, crashed>>

\* The host drops its reference on a handle no running call is using.
HostDestroyHandle(t, h) ==
  /\ CanRun(t)
  /\ objs[h].state = "live"
  /\ ~Pinned(h)
  /\ objs[h].context # 0 => Available(t, objs[h].context)
  /\ LET d == object_dealloc(objs, jsref, ctxs, rts, h)
     IN /\ objs' = d.objs /\ jsref' = d.jsref /\ ctxs' = d.ctxs /\ rts' = d.rts
        /\ pending' = Reclaimed(pending, ctxs, d.ctxs)
  /\ last' = NoResult
  /\ UNCHANGED <<hostRefs, thr, gil, crashed>>

(***************************************************************************)
(* The specifications.                                                     *)
(***************************************************************************)
\* The inputs the host draws from.  Under Spec one host thread drives the
\* bridge on one Context and the handles derived from it (and handles with
\* no context).
HostThreads == {1}
HostContexts == {1}
ArgValues == {HostArg("bool", 1), HostInt(0, 0, 41), HostInt(0, 1, 41), HostInt(1, 0, 41),
              HostArg("float", 15),
              HostArg("NoneType", 0), HostArg("str", 0),
              HostArg("dict", 0), HostArg("list", 0)}
                \cup {HostArg("_quickjs.Object", h) : h \in Handles}
ArgLists == UNION {[1..n -> ArgValues] : n \in 0..MaxArgs}
SameUnit(h, args) ==
  \A g \in ArgHandles(args) : objs[g].context \in {0, objs[h].context}
Limits == {1, 100}

Next ==
  \/ \E t \in HostThreads, c \in HostContexts : context_new(t, c)
  \/ \E t \in HostThreads, c \in HostContexts : HostDropRef(t, c)
  \/ \E t \in HostThreads, c \in HostContexts, limit \in Limits :
       context_set_memory_limit(t, c, limit)
  \/ \E t \in HostThreads, c \in HostContexts, code \in Sources \cup {NotText} :
       context_eval_begin(t, c, code)
  \/ \E t \in HostThreads : context_eval_js(t)
  \/ \E t \in HostThreads : context_eval_return(t)
  \/ \E t \in HostThreads, c \in HostContexts, name \in Names \cup {NotText} :
       context_get_begin(t, c, name)
  \/ \E t \in HostThreads : context_get_js(t)
  \/ \E t \in HostThreads : context_get_return(t)
  \/ \E t \in HostThreads, h \in Handles :
       CanRun(t) /\ \E args \in ArgLists : SameUnit(h, args) /\ object_call_begin(t, h, args)
  \/ \E t \in HostThreads : object_call_js(t)
  \/ \E t \in HostThreads : object_call_return(t)
  \/ \E t \in HostThreads, h \in Handles : object_json_js(t, h)
  \/ \E t \in HostThreads : object_json_return(t)
  \/ \E t \in HostThreads : host_object_new(t)
  \/ \E t \in HostThreads, h \in Handles : HostDestroyHandle(t, h)
  \/ HostTakeResult

Spec == Init /\ [][Next]_vars

\* Under SpecPar two host threads run, each on its own Context (thread t on
\* Context t) and on the handles derived from it.
ParSources == {"1+1", "fn", "throw Error", "throw bad"}
ParNames == {"JSON"}
ParArgLists == {<<>>} \cup {<<HostArg("_quickjs.Object", h)>> : h \in Handles}
Own(t, h) == objs[h].context = t
OwnArgs(t, args) == \A g \in ArgHandles(args) : Own(t, g)

NextPar ==
  \/ \E t \in Threads : context_new(t, t)
  \/ \E t \in Threads : HostDropRef(t, t)
  \/ \E t \in Threads, limit \in Limits : context_set_memory_limit(t, t, limit)
  \/ \E t \in Threads, code \in ParSources : context_eval_begin(t, t, code)
  \/ \E t \in Threads : context_eval_js(t)
  \/ \E t \in Threads : context_eval_return(t)
  \/ \E t \in Threads, name \in ParNames : context_get_begin(t, t, name)
  \/ \E t \in Threads : context_get_js(t)
  \/ \E t \in Threads : context_get_return(t)
  \/ \E t \in Threads, h \in Handles :
       CanRun(t) /\ Own(t, h) /\
         \E args \in ParArgLists : OwnArgs(t, args) /\ object_call_begin(t, h, args)
  \/ \E t \in Threads : object_call_js(t)
  \/ \E t \in Threads : object_call_return(t)
  \/ \E t \in Threads, h \in Handles : Own(t, h) /\ HostDestroyHandle(t, h)
  \/ HostTakeResult

SpecPar == Init /\ [][NextPar]_vars

\* Under SpecMix one host thread works on two Contexts and passes to a call
\* any live handle, of the callee's Context or of the other.
MixSources == {"fn", "({})"}

NextMix ==
  \/ \E c \in Contexts : context_new(1, c)
  \/ \E c \in Contexts : HostDropRef(1, c)
  \/ \E c \in Contexts, code \in MixSources : context_eval_begin(1, c, code)
  \/ context_eval_js(1)
  \/ context_eval_return(1)
  \/ \E h \in Handles :
       CanRun(1) /\ \E args \in ParArgLists : object_call_begin(1, h, args)
  \/ object_call_js(1)
  \/ object_call_return(1)
  \/ \E h \in Handles : HostDestroyHandle(1, h)
  \/ HostTakeResult

SpecMix == Init /\ [][NextMix]_vars

(***************************************************************************)
(* Properties.                                                             *)
(***************************************************************************)
Attached(h) == objs[h].state = "live" /\ objs[h].context # 0
Quiescent == ~crashed /\ \A t \in Threads : thr[t].pc = "idle"
Wrapping(c, id) == {h \in Handles : Attached(h) /\ objs[h].object = JSObj(c, id)}
ConvPcs == {"eval_conv", "get_conv", "call_conv", "json_conv"}

\* C1: a Context is never torn down (its engine context and runtime freed)
\* while a handle attached to it is alive: as long as such a handle lives,
\* the Context, its engine context and its runtime are live.
C1_TeardownDeferred ==
  \A h \in Handles :
    Attached(h) =>
      LET c == objs[h].context
      IN /\ ctxs[c].state = "live"
         /\ ctxs[c].context = "live"
         /\ rts[ctxs[c].runtime].state = "live"

\* The host has dropped its reference and the Context lives on for a handle.
C1_Witness ==
  \E h \in Handles :
    Attached(h) /\ hostRefs[objs[h].context] = 0 /\ ctxs[objs[h].context].state = "live"

\* C2: when no bridge operation is in progress, the engine references the
\* bridge holds on each reference-type value are as many as the live handles
\* wrapping it.
C2_RefsMatchHandles ==
  Quiescent =>
    \A c \in Contexts, id \in RefIds : jsref[c][id] = Cardinality(Wrapping(c, id))

\* Two handles wrap one value, and the bridge holds two references on it.
C2_Witness ==
  /\ Quiescent
  /\ \E c \in Contexts, id \in Objs : jsref[c][id] = 2 /\ Cardinality(Wrapping(c, id)) = 2

\* C3: the conversion consumes the value it is given, whatever its tag: over
\* the step that converts and returns, the bridge's references on a value
\* drop by the one the caller held and rise by one per handle created for
\* it, and no other reference changes.
NewlyWrapping(c, id) ==
  {h \in Handles : objs[h].state = "free" /\ objs'[h].state = "live"
                     /\ objs'[h].object = JSObj(c, id)}
C3_Consumes ==
  [][\A t \in Threads :
       (thr[t].pc \in ConvPcs /\ thr'[t].pc = "idle") =>
         \A c \in Contexts, id \in RefIds :
           jsref'[c][id] = jsref[c][id]
                             - (IF HasRefCount(thr[t].value) /\ thr[t].value.c = c
                                   /\ thr[t].value.id = id THEN 1 ELSE 0)
                             + Cardinality(NewlyWrapping(c, id))]_vars

\* A string result has been converted and its engine string released.
C3_Witness ==
  \E c \in Contexts :
    /\ last.op = "eval" /\ last.ret.kind = "str"
    /\ jsref[c]["str"] = 0 /\ ctxs[c].state = "live"
    /\ thr[1].pc = "idle"

\* C4: the pending-exception slot of a context is empty whenever no
\* operation is running on it: every operation whose engine result carried
\* the exception marker has drained the slot before it returned, also when
\* turning the drained exception into text failed.
InFlight(c) == \E t \in Threads : thr[t].pc # "idle" /\ thr[t].ctx = c
C4_PendingDrained ==
  \A c \in Contexts :
    (ctxs[c].state = "live" /\ ~InFlight(c)) => pending[c] = JS_NULL

\* C5: an eval of invalid or throwing source, and a call of a handle whose
\* value is not callable, return the ScriptError (JSException) to the host:
\* the step that converts their result ends with that error raised, the
\* process alive and the Context still there for the next eval.
Failing(t) ==
  \/ thr[t].pc = "eval_conv" /\ thr[t].src \in ThrowingSources
  \/ /\ thr[t].pc = "call_conv"
     /\ ~(objs[thr[t].h].object.tag = "OBJECT" /\ objs[thr[t].h].object.id \in Callables)
C5_ScriptError ==
  [][\A t \in Threads :
       (Failing(t) /\ (thr'[t].pc = "idle" \/ crashed')) =>
         /\ ~crashed'
         /\ last'.ret.kind = JSException
         /\ ctxs'[thr[t].ctx].state = "live"]_vars

\* C6: a call whose argument list holds an unsupported host kind leaves the
\* engine as it was: no reference count, pending slot, runtime, Context or
\* handle changes, and the call never reaches the engine (only argument
\* lists with no unsupported kind are converted and run).
HasUnsupported(args) == \E i \in 1..Len(args) : args[i].kind \in UnsupportedKinds
C6_RejectedCallNoEffect ==
  [][/\ (last = NoResult /\ last'.op = "call" /\ HasUnsupported(last'.args)) =>
          UNCHANGED <<jsref, pending, rts, ctxs, objs, thr>>
     /\ \A t \in Threads : thr'[t].pc = "call_js" => ~HasUnsupported(thr'[t].args)]_vars

\* A call with a string before the unsupported argument has been rejected.
C6_Witness ==
  /\ last.op = "call" /\ Len(last.args) = 2
  /\ last.args[1].kind = "str" /\ last.args[2].kind = "dict"
  /\ last.ret.kind = UnsupportedArgError
  /\ objs[last.self].context # 0

\* C7 (as amended): a call on a handle with a Context, given an unsupported
\* host argument kind, raises the host's ValueError naming the 0-based
\* position and the type name of the first unsupported argument; the kind
\* is distinct from JSException and is the kind raised for an unknown engine
\* tag as well.
RejectedCall ==
  last.op = "call" /\ objs[last.self].context # 0 /\ HasUnsupported(last.args)
NamesFirstOffender ==
  /\ last.ret.pos + 1 \in 1..Len(last.args)
  /\ last.args[last.ret.pos + 1].kind \in UnsupportedKinds
  /\ \A j \in 1..last.ret.pos : last.args[j].kind \notin UnsupportedKinds
  /\ last.ret.tname = last.args[last.ret.pos + 1].kind
C8_LockAroundEngine ==
  \A t \in Threads :
    /\ thr[t].pc \in {"eval_js", "call_js"} => gil # t
    /\ thr[t].pc = "get_js" => gil = t
    /\ (thr[t].pc \in {"eval_conv", "get_conv", "call_conv"} /\ ~crashed) => gil = t

\* One thread is inside the engine while the other converts a result.
C8_Witness ==
  /\ thr[1].pc = "eval_js"
  /\ thr[2].pc = "call_conv" /\ gil = 2

\* C8 as stated: get releases the lock around its engine operation too.
C8_Original ==
  \A t \in Threads :
    /\ thr[t].pc \in {"eval_js", "get_js", "call_js"} => gil # t
    /\ (thr[t].pc \in {"eval_conv", "get_conv", "call_conv"} /\ ~crashed) => gil = t

\* C9: two threads, each on its own Context Unit, share no engine state.
\* The unit of a Context is its record, its runtime, its pending slot, its
\* references and its handles.  Live Contexts have runtimes of their own, a
\* thread inside the bridge works on values of its own unit only, and every
\* step changes the unit of one Context at most, which is the unit of the
\* thread that took the step when it is a step of eval, get, call or
\* set_memory_limit.
Unit(c) ==
  <<ctxs[c], IF ctxs[c].runtime = 0 THEN <<>> ELSE rts[ctxs[c].runtime],
    pending[c], jsref[c], {h \in Handles : objs[h].context = c}>>
OfUnit(v, c) == HasRefCount(v) => v.c = c
Separate ==
  /\ \A c, d \in Contexts :
       (c # d /\ ctxs[c].state = "live" /\ ctxs[d].state = "live") =>
         ctxs[c].runtime # ctxs[d].runtime
  /\ \A h \in Handles : Attached(h) => OfUnit(objs[h].object, objs[h].context)
  /\ \A t \in Threads :
       thr[t].pc # "idle" =>
         /\ thr[t].ctx = t
         /\ OfUnit(thr[t].value, t)
         /\ \A i \in 1..Len(thr[t].jsargs) : OfUnit(thr[t].jsargs[i], t)
         /\ \A h \in thr[t].pins : objs[h].context = t
C9_NoSharedState ==
  [][/\ Separate'
     /\ \A c, d \in Contexts : c # d => (Unit(c)' = Unit(c) \/ Unit(d)' = Unit(d))
     /\ \A t \in Threads :
          (thr'[t] # thr[t] \/ (last = NoResult /\ last'.t = t)) =>
            \A c \in Contexts \ {t} : Unit(c)' = Unit(c)]_vars

\* Both threads are inside the engine at once, each with a ceiling set on
\* its own runtime or not.
C9_Witness ==
  /\ thr[1].pc = "eval_js" /\ thr[2].pc = "call_js"
  /\ rts[ctxs[1].runtime].limit # rts[ctxs[2].runtime].limit

\* C10: a handle with no Context is inert.  A call on it, whatever the
\* arguments, returns None and changes neither the engine nor a thread's
\* place; a call that reaches the engine is on a handle with a Context; and
\* destroying the handle releases no engine reference and no reference on a
\* Context.
C10_InertHandle ==
  [][/\ (last = NoResult /\ last'.op = "call" /\ objs[last'.self].context = 0) =>
          /\ last'.ret = RetNone
          /\ UNCHANGED <<jsref, pending, rts, ctxs, objs, thr>>
     /\ \A t \in Threads : thr'[t].pc = "call_js" => objs'[thr'[t].h].context # 0
     /\ \A h \in Handles :
          (objs[h].state = "live" /\ objs[h].context = 0 /\ objs'[h].state = "free") =>
            UNCHANGED <<jsref, pending, rts, ctxs>>]_vars

\* An inert handle, called with an unsupported argument while a Context and
\* a handle of it are alive, has returned None.
C10_Witness ==
  /\ last.op = "call" /\ objs[last.self].context = 0
  /\ HasUnsupported(last.args)
  /\ last.ret = RetNone
  /\ \E h \in Handles : Attached(h)

\* C11: the conversion of a result follows the table of tags: INT to int,
\* BOOL to bool, FLOAT64 to float, STRING to str, NULL and UNDEFINED to
\* None, OBJECT to a new handle attached to the Context of the operation,
\* the EXCEPTION marker to the ScriptError (JSException), and any other tag
\* to an error of another kind than the ScriptError, with no handle made
\* (for every operation that comes to its conversion with no host error
\* left set by the conversion of its arguments).
Converted(t) ==
  /\ thr[t].pc \in ConvPcs /\ (thr'[t].pc = "idle" \/ crashed')
  /\ ~PyErr_Occurred(thr[t].args)
FollowsTable(v, c, r) ==
  CASE v.tag = "INT" -> r.kind = "int" /\ r.n = v.n
    [] v.tag = "BOOL" -> r.kind = "bool" /\ r.n = v.n
    [] v.tag = "FLOAT64" -> r.kind = "float" /\ r.n = v.n
    [] v.tag = "STRING" -> r.kind = "str"
    [] v.tag \in {"NULL", "UNDEFINED"} -> r = RetNone
    [] v.tag = "OBJECT" ->
         /\ r.kind = "_quickjs.Object"
         /\ objs[r.h].state = "free"
         /\ objs'[r.h] = [state |-> "live", context |-> c, object |-> v]
    [] v.tag = "EXCEPTION" -> r.kind = JSException
    [] OTHER -> r.kind = UnknownTagError /\ r.kind # JSException /\ objs' = objs
C11_MarshalingTable ==
  [][\A t \in Threads :
       Converted(t) => /\ ~crashed'
                       /\ FollowsTable(thr[t].value, thr[t].ctx, last'.ret)]_vars

\* C12 (as amended): a primitive host value passed alone to the identity
\* function, with no memory ceiling in the way, comes back equal and of the
\* same kind (a bool as a bool, a float as a float, None as None, text as
\* text) when it is not an integer outside the range of 32 bits; an integer
\* outside that range does not come back unchanged: it comes back as its low
\* 32 bits when it fits a C long, and as SystemError when it does not.
Primitives == {"bool", "int", "float", "NoneType", "str"}
IsIdentity(v) == v.tag = "OBJECT" /\ v.id = "fn"
RoundTrip(t) ==
  /\ thr[t].pc = "call_conv" /\ thr'[t].pc = "idle"
  /\ IsIdentity(objs[thr[t].h].object)
  /\ Len(thr[t].args) = 1 /\ thr[t].args[1].kind \in Primitives
  /\ ~OutOfMemory(Limit(ctxs, rts, thr[t].ctx))
InRange32(arg) == arg.hi = 0 /\ arg.top = 0
SameValue(arg, r) == r.kind = arg.kind /\ r.n = arg.n /\ InRange32(arg)
JsonReturned == last.op = "json" /\ objs[last.self].context # 0
RefsAsBefore(c) == \A id \in RefIds : jsref[c][id] = Cardinality(Wrapping(c, id))
C13_JsonTextOrError ==
  JsonReturned =>
    /\ last.ret.kind \in {"str", JSException}
    /\ RefsAsBefore(objs[last.self].context)

\* C14: set_memory_limit(n) returns None and changes the ceiling of the
\* runtime of its Context to n and nothing else; an eval of a source that
\* does not throw raises the ScriptError (JSException) when the engine's
\* allocation exceeds the ceiling of its runtime, and returns what the
\* source evaluates to (no JSException) when it does not.
LimitSet == last = NoResult /\ last'.op = "set_memory_limit"
EvalReturns(t) ==
  /\ thr[t].pc = "eval_conv" /\ thr'[t].pc = "idle"
  /\ thr[t].src \in Sources \ ThrowingSources
ArgRefs(t, c, id) ==
  Cardinality({i \in 1..Len(thr[t].jsargs) :
                 /\ HasRefCount(thr[t].jsargs[i])
                 /\ thr[t].jsargs[i].c = c /\ thr[t].jsargs[i].id = id})
ResultRef(t, c, id) ==
  IF HasRefCount(thr[t].value) /\ thr[t].value.c = c /\ thr[t].value.id = id THEN 1 ELSE 0
C15_ArgsReleased ==
  /\ \A t \in Threads, id \in RefIds :
       LET c == thr[t].ctx
       IN /\ thr[t].pc = "call_js" =>
               jsref[c][id] = Cardinality(Wrapping(c, id)) + ArgRefs(t, c, id)
          /\ (thr[t].pc = "call_conv" /\ ~crashed) =>
               /\ thr[t].jsargs = <<>>
               /\ jsref[c][id] = Cardinality(Wrapping(c, id)) + ResultRef(t, c, id)
  /\ (last.op = "call" /\ objs[last.self].context # 0 /\ ~crashed) =>
       /\ RefsAsBefore(objs[last.self].context)
       /\ objs[last.self].state = "live"
       /\ \A h \in ArgHandles(last.args) : objs[h].state = "live"

\* The identity function, called with a handle and a string, has returned a
\* second handle on the value of the first.
C15_Witness ==
  /\ last.op = "call" /\ Len(last.args) = 2
  /\ last.args[1].kind = "_quickjs.Object" /\ last.args[2].kind = "str"
  /\ last.ret.kind = "_quickjs.Object"
  /\ objs[last.ret.h].object = objs[last.args[1].n].object
  /\ last.ret.h # last.args[1].n
  /\ jsref[objs[last.self].context][objs[last.ret.h].object.id] = 2

\* C16: the step that tears a Context down frees its engine context, which
\* was live, and then its runtime, which was live, with no context left on
\* it: neither is freed twice or out of order (no corrupt heap).  At that
\* step the bridge holds no reference on a value of the Context, no handle
\* is attached to it and no thread works on it; and a Context torn down is
\* never touched again.
TornDown(c) == ctxs[c].state = "live" /\ ctxs'[c].state = "freed"
C16_TeardownOrder ==
  [][\A c \in Contexts :
       LET r == ctxs[c].runtime
       IN /\ TornDown(c) =>
               /\ ctxs[c].context = "live" /\ ctxs'[c].context = "freed"
               /\ rts[r].state = "live" /\ rts'[r].state = "freed"
               /\ \A id \in RefIds : jsref'[c][id] = 0
               /\ \A h \in Handles : ~(objs'[h].state = "live" /\ objs'[h].context = c)
               /\ ~InFlight(c)
          /\ ctxs[c].state = "freed" => (ctxs'[c] = ctxs[c] /\ rts'[r] = rts[r])]_vars

\* A Context has been torn down: its engine context and its runtime are
\* freed, and no handle is left.
C16_Witness ==
  \E c \in Contexts :
    /\ ctxs[c].state = "freed" /\ ctxs[c].context = "freed"
    /\ rts[ctxs[c].runtime].state = "freed"
    /\ \A h \in Handles : objs[h].state = "free"
    /\ pending[c] = JS_NULL

\* C17: a host integer outside the range of 32 bits is not rejected: the
\* call is rejected for an argument of an unsupported kind only, the engine
\* receives for every integer argument its value modulo 2^32 read as a
\* signed integer of 32 bits (the word n of the integer), and no error is
\* raised on its account.
Trunc32(arg) == arg.n
IntArgs(args) == {i \in 1..Len(args) : args[i].kind = "int"}
C17_Truncated ==
  /\ \A t \in Threads :
       thr[t].pc = "call_js" =>
         \A i \in IntArgs(thr[t].args) : thr[t].jsargs[i] = JSInt(Trunc32(thr[t].args[i]))
  /\ (last.op = "call" /\ objs[last.self].context # 0) =>
       /\ last.ret.pos >= 0 => HasUnsupported(last.args)
       /\ last.ret.kind # "SystemError"

\* C18: every engine value a call duplicates, passes to the engine and
\* releases belongs to the runtime of the Context of the handle called,
\* whatever handle the host passes as an argument.
C18_OwnRuntimeOnly ==
  \A t \in Threads :
    thr[t].pc = "call_js" =>
      \A i \in 1..Len(thr[t].jsargs) : OfUnit(thr[t].jsargs[i], thr[t].ctx)

\* C19: an operation on a handle with no Context does not read the Context
\* it has not got: call and json on such a handle complete, returning None,
\* with the process alive.
C19_InertOperations ==
  (last.op \in {"call", "json"} /\ objs[last.self].context = 0) =>
    /\ ~crashed
    /\ last.ret = RetNone

\* C20: the reference count of a live Context is the number of references
\* the host program holds on it plus the number of live handles attached to
\* it, and is at least one; a Context that has been created and has neither
\* is torn down, and it is torn down once: its engine context and runtime
\* are freed and the heap is not corrupt.
AttachedTo(c) == {h \in Handles : Attached(h) /\ objs[h].context = c}
C20_RefcountAccounting ==
  \A c \in Contexts :
    /\ ctxs[c].state = "live" =>
         /\ ctxs[c].refcnt = hostRefs[c] + Cardinality(AttachedTo(c))
         /\ ctxs[c].refcnt >= 1
    /\ (ctxs[c].state # "unborn" /\ hostRefs[c] = 0 /\ AttachedTo(c) = {}) =>
         /\ ctxs[c].state = "freed"
         /\ ctxs[c].context = "freed"
         /\ rts[ctxs[c].runtime].state = "freed"
    /\ ctxs[c].state = "freed" => (hostRefs[c] = 0 /\ AttachedTo(c) = {})

\* A Context with the host's reference and two handles has a count of 3.
C20_Witness ==
  \E c \in Contexts :
    /\ ctxs[c].state = "live" /\ hostRefs[c] = 1
    /\ Cardinality(AttachedTo(c)) = 2
    /\ ctxs[c].refcnt = 3

=============================================================================
